---- MODULE Spec2Model ----
(***************************************************************************)
(* A model of generate_dashboard_assets.py: the observations tally, the    *)
(* chart functions, the incident model trainer and main.                   *)
(*                                                                         *)
(* A table (pandas DataFrame) is a record [n, col]: n rows, and col a      *)
(* function from the names of the columns present to sequences of n cells. *)
(* A cell is missing (NaN), a text, or a number.  A text is a sequence of  *)
(* one-character strings, except for dates, whose texts are sequences of   *)
(* the tokens year, "-", month, "-", day.                                  *)
(***************************************************************************)
EXTENDS Integers, Sequences, FiniteSets, TLC

VARIABLES
    pc,            \* main's position
    obsExists,     \* os.path.exists(args.observations)
    incExists,     \* os.path.exists(args.incidents)
    obs_df,        \* main's obs_df, and the argument of the tally
    inc_df,        \* main's inc_df, and the argument of the trainer
    summary,       \* main's summary dict (observations, incidents, model, assets)
    log,           \* what the run did to the file system, in order
    summary_json,  \* what the run wrote to summary.json
    tally,         \* the tuple _compute_open_closed_observations returned
    tpc,           \* the trainer's position
    sev_col,       \* the trainer's locals
    like_col,
    y,
    split,
    metrics        \* the ModelMetrics the trainer returned

vars == <<pc, obsExists, incExists, obs_df, inc_df, summary, log, summary_json,
          tally, tpc, sev_col, like_col, y, split, metrics>>

----------------------------------------------------------------------------
(* Bounds of the inputs. *)

\* rows of the tables the tally is explored on
TallyRows == 2

\* rows of the tables the trainer is explored on, before padding
TrainRows == 1

\* rows of the tables main is explored on
MainRows == 1

\* rows of low scores appended to make a large incidents table
PadRows == 40

----------------------------------------------------------------------------
(* Cells and texts. *)

None == "None"

NA == [k |-> "na", s |-> <<>>, v |-> 0]

Str(s) == [k |-> "str", s |-> s, v |-> 0]

Num(v) == [k |-> "num", s |-> <<>>, v |-> v]

IsSpace(c) == c \in {" ", "\t"}

RECURSIVE LStrip(_)
LStrip(s) ==
    IF s = <<>> THEN s
    ELSE IF IsSpace(Head(s)) THEN LStrip(Tail(s)) ELSE s

RECURSIVE RStrip(_)
RStrip(s) ==
    IF s = <<>> THEN s
    ELSE IF IsSpace(s[Len(s)]) THEN RStrip(SubSeq(s, 1, Len(s) - 1)) ELSE s

\* str.strip()
Strip(s) == RStrip(LStrip(s))

DigitChars == <<"0", "1", "2", "3", "4", "5", "6", "7", "8", "9">>

IsDigit(c) == \E d \in 1..10 : DigitChars[d] = c

DigitVal(c) == (CHOOSE d \in 1..10 : DigitChars[d] = c) - 1

\* str(v) of a non-negative integer
RECURSIVE IntText(_)
IntText(v) ==
    IF v < 10 THEN <<DigitChars[v + 1]>>
    ELSE Append(IntText(v \div 10), DigitChars[(v % 10) + 1])

\* Series.astype(str), cell by cell
AsStr(c) ==
    CASE c.k = "str" -> c.s
      [] c.k = "num" -> IntText(c.v)
      [] OTHER -> <<"n", "a", "n">>

\* Series.fillna(v), cell by cell
FillNa(c, v) == IF c.k = "na" THEN v ELSE c

\* the text is a decimal numeral (surrounding whitespace allowed)
IsNumeral(s) ==
    /\ Strip(s) # <<>>
    /\ \A i \in 1..Len(Strip(s)) : IsDigit(Strip(s)[i])

RECURSIVE NumeralVal(_)
NumeralVal(s) ==
    IF s = <<>> THEN 0
    ELSE 10 * NumeralVal(SubSeq(s, 1, Len(s) - 1)) + DigitVal(s[Len(s)])

\* pd.to_numeric(errors="coerce"), cell by cell: a number, or NaN
ToNumeric(c) ==
    CASE c.k = "num" -> c
      [] c.k = "str" -> IF IsNumeral(c.s) THEN Num(NumeralVal(Strip(c.s))) ELSE NA
      [] OTHER -> NA

Years == {"2024"}

Months == {"01"}

Days == {"01", "02"}

\* the text is a calendar date year-month-day
IsDateText(s) ==
    /\ Len(s) = 5
    /\ s[1] \in Years /\ s[2] = "-" /\ s[3] \in Months /\ s[4] = "-" /\ s[5] \in Days

\* pd.to_datetime(errors="coerce"), cell by cell: TRUE when the result is a
\* timestamp, FALSE when it is NaT (a number is read as an offset from the epoch)
ToDatetimeOk(c) ==
    CASE c.k = "num" -> TRUE
      [] c.k = "str" -> IsDateText(c.s)
      [] OTHER -> FALSE

----------------------------------------------------------------------------
(* Tables. *)

NoneDF == [n |-> -1, col |-> <<>>]

\* the content of a file pd.read_csv cannot parse
MalformedCSV == [n |-> -2, col |-> <<>>]

Columns(df) == DOMAIN df.col

\* next((c for c in cands if c in df.columns), None)
FirstPresent(cands, df) ==
    IF \E i \in 1..Len(cands) : cands[i] \in Columns(df)
    THEN cands[CHOOSE i \in 1..Len(cands) :
                 /\ cands[i] \in Columns(df)
                 /\ \A j \in 1..(i - 1) : cands[j] \notin Columns(df)]
    ELSE None

\* the tables with the columns cols, n rows and every cell in cells
TablesOver(cols, n, cells) ==
    {[n |-> n, col |-> f] : f \in [cols -> [1..n -> cells]]}

SubsetsUpTo(S, k) == {T \in SUBSET S : Cardinality(T) <= k}

Range(f) == {f[i] : i \in DOMAIN f}

----------------------------------------------------------------------------
(* ModelMetrics.  An accuracy is <<>> (None) or <<correct, tested>>: the     *)
(* fraction of the held-out rows the classifier scored correctly.          *)

ModelMetrics(enabled, rows, accuracy) ==
    [enabled |-> enabled, model |-> "LogisticRegression", target |-> "high_risk",
     rows |-> rows, accuracy |-> accuracy]

NoAccuracy == <<>>

NoMetrics == [enabled |-> FALSE, model |-> "", target |-> "", rows |-> -1,
              accuracy |-> NoAccuracy]

----------------------------------------------------------------------------
(* _compute_open_closed_observations *)

ActionCols == <<"Action Taken", "Action taken">>

\* the tuple returned when no action column is present
TallyWithoutColumn(total) == <<total, 0, total>>

\* action.str.strip().str.len() > 0
IsClosedText(s) == Len(Strip(s)) > 0

compute_open_closed_observations(observations) ==
    LET total == observations.n
        action_col == FirstPresent(ActionCols, observations)
    IN  IF action_col = None
        THEN TallyWithoutColumn(total)
        ELSE LET action == [i \in 1..total |->
                              AsStr(FillNa(observations.col[action_col][i], Str(<<>>)))]
                 closed == Cardinality({i \in 1..total : IsClosedText(action[i])})
                 open_ == total - closed
             IN  <<total, open_, closed>>

----------------------------------------------------------------------------
(* The chart functions.  What a chart function does to the file system is   *)
(* "saved" (plt.savefig wrote out_path), "returned" (it returned before     *)
(* plotting) or "raised".                                                  *)

\* series.dropna().astype(str).value_counts(): the texts and their counts
ValueCounts(series) ==
    LET kept == {i \in DOMAIN series : series[i].k # "na"}
        texts == {AsStr(series[i]) : i \in kept}
    IN  [t \in texts |-> Cardinality({i \in kept : AsStr(series[i]) = t})]

\* _plot_bar: plotting an empty count series is left to the plotting
\* library, which either raises or draws an empty chart
plot_bar(series) ==
    IF DOMAIN ValueCounts(series) = {} THEN {"raised", "saved"} ELSE {"saved"}

\* _plot_incidents_over_time
plot_incidents_over_time(df, date_col) ==
    IF date_col \notin Columns(df) THEN "returned"
    ELSE LET dates == {i \in 1..df.n : ToDatetimeOk(df.col[date_col][i])}
         IN  IF dates = {} THEN "returned" ELSE "saved"

----------------------------------------------------------------------------
(* _train_simple_incident_model *)

possible_sev_cols == <<"Severity", "severityScore", "Severity Score">>

possible_like_cols == <<"Likelihood", "likelihoodScore", "Likelihood Score">>

CategoricalCols == <<"Category", "Department", "Site / Project", "Location">>

HighRiskThreshold == 7

\* to_num(col)
to_num(df, col) == [i \in 1..df.n |-> ToNumeric(df.col[col][i])]

\* pd.Series([None] * len(df))
NoneSeries(df) == [i \in 1..df.n |-> NA]

\* a strict comparison with the threshold
IsHighStrict(c) == FillNa(c, Num(0)).v > HighRiskThreshold

IsHigh(c) == FillNa(c, Num(0)).v >= HighRiskThreshold

\* y = ((sev.fillna(0) >= 7) | (like.fillna(0) >= 7)).astype(int)
HighRiskLabel(df, sc, lc) ==
    LET sev == IF sc # None THEN to_num(df, sc) ELSE NoneSeries(df)
        like == IF lc # None THEN to_num(df, lc) ELSE NoneSeries(df)
    IN  [i \in 1..df.n |-> IF IsHigh(sev[i]) \/ IsHigh(like[i]) THEN 1 ELSE 0]

nunique(s) == Cardinality(Range(s))

\* a test that lets a one-class label through
IsConstantTargetOffByOne(labels) == nunique(labels) < 1

\* "If target is constant, skip."
IsConstantTarget(labels) == nunique(labels) < 2

RECURSIVE AddPresent(_, _, _)
AddPresent(cands, df, feature_cols) ==
    IF cands = <<>> THEN feature_cols
    ELSE AddPresent(Tail(cands), df,
                    IF Head(cands) \in Columns(df) /\ Head(cands) \notin Range(feature_cols)
                    THEN Append(feature_cols, Head(cands))
                    ELSE feature_cols)

FeatureCols(df, sc, lc) ==
    LET f1 == IF sc # None THEN <<sc>> ELSE <<>>
        f2 == IF lc # None /\ lc \notin Range(f1) THEN Append(f1, lc) ELSE f1
    IN  AddPresent(CategoricalCols, df, f2)

IsScoreCol(c, sc, lc) == c \in {sc, lc}

NumericFeatures(df, sc, lc) ==
    LET Test(c) == IsScoreCol(c, sc, lc) IN SelectSeq(FeatureCols(df, sc, lc), Test)

CategoricalFeatures(df, sc, lc) ==
    LET Test(c) == c \notin Range(NumericFeatures(df, sc, lc))
    IN  SelectSeq(FeatureCols(df, sc, lc), Test)

\* the checks of a stratified split that make train_test_split raise
SplitRaises(n_train, n_test, class_counts) ==
    \/ \E k \in DOMAIN class_counts : class_counts[k] < 2
    \/ n_train < Cardinality(DOMAIN class_counts)
    \/ n_test < Cardinality(DOMAIN class_counts)

\* train_test_split(X, y, test_size=0.25, random_state=42, stratify=y):
\* the sizes of the two partitions, or that it raised
train_test_split(labels) ==
    LET n == Len(labels)
        n_test == (n + 3) \div 4
        n_train == n - n_test
        class_counts == [k \in Range(labels) |->
                           Cardinality({i \in 1..n : labels[i] = k})]
    IN  [raised |-> SplitRaises(n_train, n_test, class_counts),
         n_train |-> n_train, n_test |-> n_test]

NoSplit == [raised |-> FALSE, n_train |-> -1, n_test |-> -1]

\* the median imputer of the numeric features raises on a text that is not
\* a number, in clf.fit for a training row and in clf.score for a test row
FitRaises(df, sc, lc) ==
    \E c \in Range(NumericFeatures(df, sc, lc)) : \E i \in 1..df.n :
        df.col[c][i].k = "str" /\ ~IsNumeral(df.col[c][i].s)

\* float(clf.score(X_test, y_test)): the test rows scored correctly are not
\* determined here, any number of them is possible
Accuracies(n_test) == {<<correct, n_test>> : correct \in 0..n_test}

----------------------------------------------------------------------------
(* The tables the specifications are explored on. *)

\* a large table: t followed by PadRows rows, every cell of a row the same
\* number, 1 throughout ("low") or cycling through 1, 2, .., 9, 0 ("mixed")
BulkCell(kind, j) == IF kind = "low" THEN Num(1) ELSE Num(j % 10)

Pad(t, kind) ==
    IF kind = "none" THEN t
    ELSE [n |-> t.n + PadRows,
          col |-> [c \in Columns(t) |->
                     [i \in 1..(t.n + PadRows) |->
                        IF i <= t.n THEN t.col[c][i] ELSE BulkCell(kind, i - t.n)]]]

PadKinds == {"none", "low", "mixed"}

\* the column sets and row counts of the tables explored
Shapes(columns, rows) == SubsetsUpTo(columns, 2) \X (0..rows)

ActionCells == {NA, Str(<<>>), Str(<<" ">>), Str(<<" ", "y">>), Num(0)}

\* the table of the action-taken texts "", "closed on 3/1", "  ", "yes"
ExampleObservations ==
    [n |-> 4,
     col |-> [c \in {"Action Taken"} |->
                <<Str(<<>>),
                  Str(<<"c", "l", "o", "s", "e", "d", " ", "o", "n", " ", "3", "/", "1">>),
                  Str(<<" ", " ">>),
                  Str(<<"y", "e", "s">>)>>]]

ObsTallyShapes == Shapes({"Action Taken", "Action taken", "Observation Type"}, TallyRows)

ScoreCells == {NA, Num(6), Num(7), Str(<<"9">>), Str(<<"x">>)}

IncTrainShapes ==
    Shapes({"Severity", "severityScore", "Severity Score",
            "Likelihood", "likelihoodScore", "Likelihood Score",
            "Category", "Notes"}, TrainRows)

ObsMainCells == {NA, Str(<<"A">>)}

ObsMainShapes == Shapes({"Action taken", "Observation Type", "Site / Location"}, MainRows)

IncMainCells == {NA, Num(7), Str(<<"2024", "-", "01", "-", "01">>)}

IncMainShapes == Shapes({"Severity", "Date"}, MainRows)

----------------------------------------------------------------------------
(* The trainer, a step at a time.  tpc is "entry" at the call, then         *)
(* "label", "split" and "fit"; it ends at the return the trainer left by    *)
(* ("ret100", "ret115", "ret161") or at "raised".                          *)

\* the no-signal return reporting the number of columns as rows
TrainResolveColumnsAsRows ==
    /\ tpc = "entry"
    /\ sev_col' = FirstPresent(possible_sev_cols, inc_df)
    /\ like_col' = FirstPresent(possible_like_cols, inc_df)
    /\ IF sev_col' = None /\ like_col' = None
       THEN /\ metrics' = ModelMetrics(FALSE, Cardinality(Columns(inc_df)), NoAccuracy)
            /\ tpc' = "ret100"
       ELSE /\ metrics' = metrics
            /\ tpc' = "label"
    /\ UNCHANGED <<pc, obsExists, incExists, obs_df, inc_df, summary, log,
                   summary_json, tally, y, split>>

\* lines 93-100: resolve the score columns; without any, return disabled
TrainResolve ==
    /\ tpc = "entry"
    /\ sev_col' = FirstPresent(possible_sev_cols, inc_df)
    /\ like_col' = FirstPresent(possible_like_cols, inc_df)
    /\ IF sev_col' = None /\ like_col' = None
       THEN /\ metrics' = ModelMetrics(FALSE, inc_df.n, NoAccuracy)
            /\ tpc' = "ret100"
       ELSE /\ metrics' = metrics
            /\ tpc' = "label"
    /\ UNCHANGED <<pc, obsExists, incExists, obs_df, inc_df, summary, log,
                   summary_json, tally, y, split>>

\* lines 102-115: derive the label; a constant label returns disabled
TrainLabel ==
    /\ tpc = "label"
    /\ y' = HighRiskLabel(inc_df, sev_col, like_col)
    /\ IF IsConstantTarget(y')
       THEN /\ metrics' = ModelMetrics(FALSE, inc_df.n, NoAccuracy)
            /\ tpc' = "ret115"
       ELSE /\ metrics' = metrics
            /\ tpc' = "split"
    /\ UNCHANGED <<pc, obsExists, incExists, obs_df, inc_df, summary, log,
                   summary_json, tally, sev_col, like_col, split>>

\* lines 117-157: assemble the features and the pipeline, split
TrainSplit ==
    /\ tpc = "split"
    /\ split' = train_test_split(y)
    /\ tpc' = IF split'.raised THEN "raised" ELSE "fit"
    /\ UNCHANGED <<pc, obsExists, incExists, obs_df, inc_df, summary, log,
                   summary_json, tally, sev_col, like_col, y, metrics>>

\* lines 158-161: fit, score, return enabled
TrainFit ==
    /\ tpc = "fit"
    /\ IF FitRaises(inc_df, sev_col, like_col)
       THEN /\ tpc' = "raised"
            /\ metrics' = metrics
       ELSE /\ tpc' = "ret161"
            /\ \E acc \in Accuracies(split.n_test) :
                 metrics' = ModelMetrics(TRUE, inc_df.n, acc)
    /\ UNCHANGED <<pc, obsExists, incExists, obs_df, inc_df, summary, log,
                   summary_json, tally, sev_col, like_col, y, split>>

TrainReturned == tpc \in {"ret100", "ret115", "ret161"}

----------------------------------------------------------------------------
(* main, a step at a time.  The log holds the run's file operations:        *)
(* [op, path] with op "makedirs", "read_csv", "savefig" or "write_json".    *)

Event(op, path) == [op |-> op, path |-> path]

EmptyDict == <<>>

\* the run has done the file operation op on path
Logged(op, path) == \E i \in 1..Len(log) : log[i] = Event(op, path)

\* summary["assets"][name] = url
SetAsset(assets, name, url) == (name :> url) @@ assets

\* lines 165-184
Start ==
    /\ pc = "start"
    /\ log' = Append(log, Event("makedirs", "outdir"))
    /\ summary' = [observations |-> EmptyDict, incidents |-> EmptyDict,
                   model |-> EmptyDict, assets |-> EmptyDict]
    /\ pc' = "load_obs"
    /\ UNCHANGED <<obsExists, incExists, obs_df, inc_df, summary_json, tally,
                   tpc, sev_col, like_col, y, split, metrics>>

ObservationsMissing == [rows |-> 0, note |-> "Observations CSV not found"]

IncidentsMissing == [rows |-> 0, note |-> "Incidents CSV not found"]

\* the load without the test that the path exists: reading a missing file raises
LoadObservationsFileNoCheck(f) ==
    /\ log' = Append(log, Event("read_csv", "observations"))
    /\ IF f = MalformedCSV \/ ~obsExists
       THEN /\ pc' = "aborted"
            /\ UNCHANGED <<obs_df, tally, summary>>
       ELSE /\ obs_df' = f
            /\ tally' = compute_open_closed_observations(f)
            /\ summary' = [summary EXCEPT !.observations =
                             [rows |-> f.n, total |-> tally'[1],
                              open |-> tally'[2], closed |-> tally'[3]]]
            /\ pc' = "chart_type"

\* lines 187-196 and 208-209, with f the content of the observations file
LoadObservationsFile(f) ==
    IF ~obsExists
    THEN /\ summary' = [summary EXCEPT !.observations = ObservationsMissing]
         /\ pc' = "load_inc"
         /\ UNCHANGED <<obs_df, tally, log>>
    ELSE /\ log' = Append(log, Event("read_csv", "observations"))
         /\ IF f = MalformedCSV
            THEN /\ pc' = "aborted"
                 /\ UNCHANGED <<obs_df, tally, summary>>
            ELSE /\ obs_df' = f
                 /\ tally' = compute_open_closed_observations(f)
                 /\ summary' = [summary EXCEPT !.observations =
                                  [rows |-> f.n, total |-> tally'[1],
                                   open |-> tally'[2], closed |-> tally'[3]]]
                 /\ pc' = "chart_type"

\* a chart of main's observations stage: lines 198-201, and 203-206
ChartObservations(column, file, asset, next) ==
    IF column \in Columns(obs_df)
    THEN \E outcome \in plot_bar(obs_df.col[column]) :
           IF outcome = "raised"
           THEN /\ pc' = "aborted"
                /\ UNCHANGED <<summary, log>>
           ELSE /\ log' = Append(log, Event("savefig", file))
                /\ summary' = [summary EXCEPT !.assets =
                                 SetAsset(@, asset, "/dashboard-assets/" \o file)]
                /\ pc' = next
    ELSE /\ pc' = next
         /\ UNCHANGED <<summary, log>>

DateCols == <<"Incident Date", "Date", "incidentDate", "incident_date">>

\* the load registering the incidents chart although the file is missing
LoadIncidentsFilePhantom(f) ==
    IF ~incExists
    THEN /\ summary' = [summary EXCEPT
                          !.incidents = IncidentsMissing,
                          !.model = ModelMetrics(FALSE, 0, NoAccuracy),
                          !.assets = SetAsset(@, "incidentsOverTime",
                                              "/dashboard-assets/incidents_over_time.png")]
         /\ pc' = "write"
         /\ UNCHANGED <<inc_df, log>>
    ELSE /\ log' = Append(log, Event("read_csv", "incidents"))
         /\ IF f = MalformedCSV
            THEN /\ pc' = "aborted"
                 /\ UNCHANGED <<inc_df, summary>>
            ELSE /\ inc_df' = f
                 /\ summary' = [summary EXCEPT !.incidents = [rows |-> f.n]]
                 /\ pc' = "chart_inc"

\* lines 212-215 and 233-235, with f the content of the incidents file
LoadIncidentsFile(f) ==
    IF ~incExists
    THEN /\ summary' = [summary EXCEPT
                          !.incidents = IncidentsMissing,
                          !.model = ModelMetrics(FALSE, 0, NoAccuracy)]
         /\ pc' = "write"
         /\ UNCHANGED <<inc_df, log>>
    ELSE /\ log' = Append(log, Event("read_csv", "incidents"))
         /\ IF f = MalformedCSV
            THEN /\ pc' = "aborted"
                 /\ UNCHANGED <<inc_df, summary>>
            ELSE /\ inc_df' = f
                 /\ summary' = [summary EXCEPT !.incidents = [rows |-> f.n]]
                 /\ pc' = "chart_inc"

\* lines 217-227
ChartIncidentsStep ==
    LET date_col == FirstPresent(DateCols, inc_df)
    IN  IF date_col # None
        THEN /\ log' = IF plot_incidents_over_time(inc_df, date_col) = "saved"
                       THEN Append(log, Event("savefig", "incidents_over_time.png"))
                       ELSE log
             /\ summary' = [summary EXCEPT !.assets =
                              SetAsset(@, "incidentsOverTime",
                                       "/dashboard-assets/incidents_over_time.png")]
        ELSE UNCHANGED <<summary, log>>

LoadObservations ==
    /\ pc = "load_obs"
    /\ \E sh \in ObsMainShapes :
         \E f \in TablesOver(sh[1], sh[2], ObsMainCells) \cup {MalformedCSV} :
           LoadObservationsFile(f)
    /\ UNCHANGED <<obsExists, incExists, inc_df, summary_json, tpc, sev_col,
                   like_col, y, split, metrics>>

ChartObsType ==
    /\ pc = "chart_type"
    /\ ChartObservations("Observation Type", "observations_by_type.png",
                         "observationsByType", "chart_site")
    /\ UNCHANGED <<obsExists, incExists, obs_df, inc_df, summary_json, tally,
                   tpc, sev_col, like_col, y, split, metrics>>

ChartObsSite ==
    /\ pc = "chart_site"
    /\ ChartObservations("Site / Location", "observations_by_site.png",
                         "observationsBySite", "load_inc")
    /\ UNCHANGED <<obsExists, incExists, obs_df, inc_df, summary_json, tally,
                   tpc, sev_col, like_col, y, split, metrics>>

LoadIncidents ==
    /\ pc = "load_inc"
    /\ \E sh \in IncMainShapes, kind \in PadKinds :
         \E f \in {Pad(t, kind) : t \in TablesOver(sh[1], sh[2], IncMainCells)}
                  \cup {MalformedCSV} :
           LoadIncidentsFile(f)
    /\ UNCHANGED <<obsExists, incExists, obs_df, summary_json, tally, tpc,
                   sev_col, like_col, y, split, metrics>>

ChartIncidents ==
    /\ pc = "chart_inc"
    /\ ChartIncidentsStep
    /\ pc' = "train_call"
    /\ UNCHANGED <<obsExists, incExists, obs_df, inc_df, summary_json, tally,
                   tpc, sev_col, like_col, y, split, metrics>>

\* line 230: the call
TrainCall ==
    /\ pc = "train_call"
    /\ tpc' = "entry"
    /\ pc' = "train"
    /\ UNCHANGED <<obsExists, incExists, obs_df, inc_df, summary, log,
                   summary_json, tally, sev_col, like_col, y, split, metrics>>

\* lines 230-231: the trainer returns to main, or its error leaves main
TrainReturn ==
    /\ pc = "train"
    /\ TrainReturned \/ tpc = "raised"
    /\ IF tpc = "raised"
       THEN /\ pc' = "aborted"
            /\ summary' = summary
       ELSE /\ pc' = "write"
            /\ summary' = [summary EXCEPT !.model = metrics]
    /\ UNCHANGED <<obsExists, incExists, obs_df, inc_df, log, summary_json,
                   tally, tpc, sev_col, like_col, y, split, metrics>>

\* the summary persisted, and the run ended, once the observations stage is over
WriteSummaryEarly ==
    /\ pc \in {"load_inc", "write"}
    /\ log' = Append(log, Event("write_json", "summary.json"))
    /\ summary_json' = summary
    /\ pc' = "done"
    /\ UNCHANGED <<obsExists, incExists, obs_df, inc_df, summary, tally, tpc,
                   sev_col, like_col, y, split, metrics>>

\* line 237
WriteSummary ==
    /\ pc = "write"
    /\ log' = Append(log, Event("write_json", "summary.json"))
    /\ summary_json' = summary
    /\ pc' = "done"
    /\ UNCHANGED <<obsExists, incExists, obs_df, inc_df, summary, tally, tpc,
                   sev_col, like_col, y, split, metrics>>

\* a call of _compute_open_closed_observations on its own
TallyCall ==
    /\ pc = "tally"
    /\ tally' = compute_open_closed_observations(obs_df)
    /\ pc' = "tally_done"
    /\ UNCHANGED <<obsExists, incExists, obs_df, inc_df, summary, log,
                   summary_json, tpc, sev_col, like_col, y, split, metrics>>

----------------------------------------------------------------------------
(* The specifications: a run of main, the trainer on its own on a larger    *)
(* set of tables, and the tally on its own on a larger set of tables.       *)

Idle ==
    /\ summary = EmptyDict
    /\ log = <<>>
    /\ summary_json = EmptyDict
    /\ tally = <<>>
    /\ sev_col = None
    /\ like_col = None
    /\ y = <<>>
    /\ split = NoSplit
    /\ metrics = NoMetrics

Init ==
    /\ pc = "start"
    /\ obsExists \in BOOLEAN
    /\ incExists \in BOOLEAN
    /\ obs_df = NoneDF
    /\ inc_df = NoneDF
    /\ tpc = "idle"
    /\ Idle

Next ==
    \/ Start
    \/ LoadObservations
    \/ ChartObsType
    \/ ChartObsSite
    \/ LoadIncidents
    \/ ChartIncidents
    \/ TrainCall
    \/ TrainResolve
    \/ TrainLabel
    \/ TrainSplit
    \/ TrainFit
    \/ TrainReturn
    \/ WriteSummary

Spec == Init /\ [][Next]_vars

TrainInit ==
    /\ pc = "train"
    /\ obsExists = FALSE
    /\ incExists = TRUE
    /\ obs_df = NoneDF
    /\ \E sh \in IncTrainShapes, kind \in PadKinds :
         \E t \in TablesOver(sh[1], sh[2], ScoreCells) : inc_df = Pad(t, kind)
    /\ tpc = "entry"
    /\ Idle

TrainNext == TrainResolve \/ TrainLabel \/ TrainSplit \/ TrainFit

TrainSpec == TrainInit /\ [][TrainNext]_vars

TallyInit ==
    /\ pc = "tally"
    /\ obsExists = TRUE
    /\ incExists = FALSE
    /\ \/ obs_df = ExampleObservations
       \/ \E sh \in ObsTallyShapes : obs_df \in TablesOver(sh[1], sh[2], ActionCells)
    /\ inc_df = NoneDF
    /\ tpc = "idle"
    /\ Idle

TallyNext == TallyCall

TallySpec == TallyInit /\ [][TallyNext]_vars

----------------------------------------------------------------------------
(* What the claims speak of, stated apart from the code's own helpers. *)

TrainExited == tpc \in {"ret100", "ret115", "ret161", "raised"}

LabelDerived == tpc \in {"split", "fit", "ret115", "ret161", "raised"}

SeverityAliases == {"Severity", "severityScore", "Severity Score"}

LikelihoodAliases == {"Likelihood", "likelihoodScore", "Likelihood Score"}

\* the severity column by priority, written out
ClaimedSevCol(df) ==
    IF "Severity" \in Columns(df) THEN "Severity"
    ELSE IF "severityScore" \in Columns(df) THEN "severityScore"
    ELSE IF "Severity Score" \in Columns(df) THEN "Severity Score"
    ELSE None

\* the likelihood column by priority, written out
ClaimedLikeCol(df) ==
    IF "Likelihood" \in Columns(df) THEN "Likelihood"
    ELSE IF "likelihoodScore" \in Columns(df) THEN "likelihoodScore"
    ELSE IF "Likelihood Score" \in Columns(df) THEN "Likelihood Score"
    ELSE None

\* the score of row i in column c: 0 when the column was not found and when
\* the cell is missing or not a number
ClaimedScore(df, c, i) ==
    IF c = None THEN 0
    ELSE LET cell == df.col[c][i]
         IN  CASE cell.k = "num" -> cell.v
               [] cell.k = "str" /\ IsNumeral(cell.s) -> NumeralVal(Strip(cell.s))
               [] OTHER -> 0

ClaimedHighRisk(df, i) ==
    \/ ClaimedScore(df, ClaimedSevCol(df), i) >= 7
    \/ ClaimedScore(df, ClaimedLikeCol(df), i) >= 7

Disabled(m, rows) == m.enabled = FALSE /\ m.rows = rows /\ m.accuracy = <<>>

----------------------------------------------------------------------------
(* The trainer's claims, under TrainSpec. *)

\* C1: the trainer never raises: for every table it returns a ModelMetrics
\* in exactly one of the exit states disabled-no-signal, disabled-degenerate
\* and enabled.
C1_TrainerNeverRaises ==
    /\ tpc # "raised"
    /\ tpc = "ret100" => Disabled(metrics, inc_df.n)
    /\ tpc = "ret115" => Disabled(metrics, inc_df.n)
    /\ tpc = "ret161" => metrics.enabled = TRUE /\ metrics.accuracy # <<>>

\* C4: a table with none of the severity aliases and none of the likelihood
\* aliases gets a disabled result whose rows is the number of incident rows
\* and whose accuracy is absent, whatever else the table holds.
C4_NoSignalDisabled ==
    (/\ tpc # "entry"
     /\ Columns(inc_df) \cap (SeverityAliases \cup LikelihoodAliases) = {})
    => /\ tpc = "ret100"
       /\ Disabled(metrics, inc_df.n)
       /\ y = <<>> /\ split = NoSplit

C4_Witness ==
    /\ tpc = "ret100"
    /\ inc_df.n > PadRows
    /\ Columns(inc_df) = {"Category", "Notes"}

\* C5: when the derived label takes fewer than two distinct values over all
\* rows the trainer exits disabled-degenerate: not enabled, no accuracy, rows
\* the table's row count, and no split or fit attempted.
C5_DegenerateDisabled ==
    (/\ LabelDerived
     /\ Cardinality({y[i] : i \in 1..inc_df.n}) < 2)
    => /\ tpc = "ret115"
       /\ Disabled(metrics, inc_df.n)
       /\ split = NoSplit

C5_Witness ==
    /\ tpc = "ret115"
    /\ Columns(inc_df) = {"Severity"}
    /\ inc_df.n > PadRows
    /\ \A i \in 1..inc_df.n :
         inc_df.col["Severity"][i].k = "num" /\ inc_df.col["Severity"][i].v < 7

\* C6: a valid incidents table of at least 40 rows whose severity scores
\* include a value at or above 7 and a value below 7 gets enabled = true and
\* an accuracy strictly between 0 and 1.
C6_LargeSpanningEnabled ==
    (/\ TrainExited
     /\ Columns(inc_df) = {"Severity"}
     /\ inc_df.n >= 40
     /\ \A i \in 1..inc_df.n : inc_df.col["Severity"][i].k = "num"
     /\ \E i \in 1..inc_df.n : inc_df.col["Severity"][i].v >= 7
     /\ \E i \in 1..inc_df.n : inc_df.col["Severity"][i].v < 7)
    => /\ tpc = "ret161"
       /\ metrics.enabled = TRUE
       /\ Len(metrics.accuracy) = 2
       /\ 0 < metrics.accuracy[1]
       /\ metrics.accuracy[1] < metrics.accuracy[2]

\* C8: the derived label of a row is 1 exactly when its severity or its
\* likelihood is at least 7, a missing or non-numeric value and a score whose
\* column was not found counting as 0, the columns being the first alias
\* present in the priority lists.
C8_LabelRule ==
    LabelDerived =>
        /\ DOMAIN y = 1..inc_df.n
        /\ sev_col = ClaimedSevCol(inc_df)
        /\ like_col = ClaimedLikeCol(inc_df)
        /\ \A i \in 1..inc_df.n : (y[i] = 1) <=> ClaimedHighRisk(inc_df, i)
        /\ \A i \in 1..inc_df.n : y[i] \in {0, 1}

C8_Witness ==
    /\ LabelDerived
    /\ inc_df.n = 1
    /\ Columns(inc_df) = {"Severity", "Severity Score"}
    /\ inc_df.col["Severity"][1] = Str(<<"x">>)
    /\ inc_df.col["Severity Score"][1] = Num(7)
    /\ y[1] = 0

----------------------------------------------------------------------------
(* The tally's claim, under TallySpec. *)

ClaimedActionCol(df) ==
    IF "Action Taken" \in Columns(df) THEN "Action Taken"
    ELSE IF "Action taken" \in Columns(df) THEN "Action taken"
    ELSE None

\* the cell holds a text with a character that is not whitespace
NonBlank(cell) ==
    /\ cell.k # "na"
    /\ \E j \in 1..Len(AsStr(cell)) : ~IsSpace(AsStr(cell)[j])

\* C7: the tally returns (total, open, closed) with total the row count and
\* open + closed = total; without an action-taken column closed = 0 and
\* open = total; with one, closed is the number of rows whose action-taken
\* text is non-empty after trimming, missing values counting as open.
C7_Tally ==
    pc = "tally_done" =>
        LET total == tally[1]
            open == tally[2]
            closed == tally[3]
            c == ClaimedActionCol(obs_df)
        IN  /\ total = obs_df.n
            /\ open + closed = total
            /\ IF c = None
               THEN closed = 0 /\ open = total
               ELSE closed = Cardinality({i \in 1..obs_df.n : NonBlank(obs_df.col[c][i])})

----------------------------------------------------------------------------
(* main's claims, under Spec. *)

ImagesWritten == {log[i].path : i \in {j \in 1..Len(log) : log[j].op = "savefig"}}

\* the image file behind a logical asset name
AssetFile(name) ==
    CASE name = "observationsByType" -> "observations_by_type.png"
      [] name = "observationsBySite" -> "observations_by_site.png"
      [] name = "incidentsOverTime" -> "incidents_over_time.png"
      [] OTHER -> "?"

SummaryStarted == pc # "start"

\* C2: an asset name is recorded in summary["assets"] only if its PNG file
\* was written during the run.
C2_AssetsOnlyIfWritten ==
    SummaryStarted =>
        \A name \in DOMAIN summary.assets : AssetFile(name) \in ImagesWritten

\* C3: with both source paths absent, main completes, the summary it writes
\* has observations.rows = 0, incidents.rows = 0, model.enabled = false and
\* no assets, and no image file is written.
C3_BothAbsent ==
    (~obsExists /\ ~incExists) =>
        /\ pc # "aborted"
        /\ pc = "done" \/ ENABLED Next
        /\ ImagesWritten = {}
        /\ pc = "done" =>
             /\ Logged("write_json", "summary.json")
             /\ summary_json.observations.rows = 0
             /\ summary_json.incidents.rows = 0
             /\ summary_json.model.enabled = FALSE
             /\ DOMAIN summary_json.assets = {}

C3_Witness == ~obsExists /\ ~incExists /\ pc = "done"

ObservationsStageOver == pc \notin {"start", "load_obs", "chart_type", "chart_site"}

IncidentsStageOver == pc \in {"write", "done"}

Rank(e) ==
    CASE e = [op |-> "makedirs", path |-> "outdir"] -> 0
      [] e = [op |-> "read_csv", path |-> "observations"] -> 1
      [] e = [op |-> "savefig", path |-> "observations_by_type.png"] -> 2
      [] e = [op |-> "savefig", path |-> "observations_by_site.png"] -> 3
      [] e = [op |-> "read_csv", path |-> "incidents"] -> 4
      [] e = [op |-> "savefig", path |-> "incidents_over_time.png"] -> 5
      [] e = [op |-> "write_json", path |-> "summary.json"] -> 6
      [] OTHER -> -1

\* C10: the steps of a run happen in the order create output directory,
\* observations stage, incidents stage, persist; summary.json is written at
\* most once, only after both stages have finished and the model block is
\* filled, after every image write; an aborted run writes no summary.json.
C10_PersistLast ==
    /\ \A i \in 1..Len(log) : Rank(log[i]) >= 0
    /\ \A i, j \in 1..Len(log) : i < j => Rank(log[i]) < Rank(log[j])
    /\ log # <<>> => log[1].op = "makedirs"
    /\ tpc # "idle" => Logged("read_csv", "incidents") /\ ObservationsStageOver
    /\ Logged("write_json", "summary.json") =>
         /\ pc = "done"
         /\ summary_json = summary
         /\ DOMAIN summary.observations # {}
         /\ DOMAIN summary.incidents # {}
         /\ "enabled" \in DOMAIN summary.model
         /\ incExists => TrainReturned /\ summary.model = metrics
    /\ ~Logged("write_json", "summary.json") => summary_json = <<>>
    /\ pc = "done" => Logged("write_json", "summary.json")
    /\ pc = "aborted" => ~Logged("write_json", "summary.json")

C10_Witness ==
    /\ pc = "done"
    /\ ImagesWritten = {"observations_by_type.png", "observations_by_site.png",
                        "incidents_over_time.png"}
    /\ summary_json.model.enabled = TRUE

====
